---- MODULE Spec2Model ----
(***************************************************************************)
(* Model of the imagination-augmented agent:                               *)
(*   - the pixel codecs of imagination_augmented_agent.py and              *)
(*     pacman_util.py (pix_to_target / target_to_pix),                     *)
(*   - ImaginationCore.__call__ and the part of I2A.forward that encodes   *)
(*     and reshapes the imagined rollouts,                                 *)
(*   - the optimizer steps of the training loop.                           *)
(* Floating point values are represented in tenths: 0.0 is 0, 0.5 is 5,    *)
(* 1.0 is 10.  A tensor of shape (C, H, W) is the sequence of its elements *)
(* in row-major (contiguous) order; a batch is a sequence of such tensors. *)
(***************************************************************************)
EXTENDS Integers, Sequences, FiniteSets, TLC

\* ------------------------------------------------------------------ bounds
MaxBatch == 2
MaxActions == 2
MaxRolloutBatch == 4
MaxRollouts == 2
MaxWidth == 2
MaxWeight == 1
MaxColour == 1
MaxCalls == 2
MaxLen == 2
MaxUpdates == 3
MaxGrad == 2

\* ------------------------------------------------------- generic helpers
RECURSIVE SumTo(_, _)
SumTo(f, n) == IF n = 0 THEN 0 ELSE f[n] + SumTo(f, n - 1)

RECURSIVE Flatten(_)
Flatten(ss) == IF ss = <<>> THEN <<>> ELSE Head(ss) \o Flatten(Tail(ss))

Range(s) == {s[i] : i \in DOMAIN s}

\* ------------------------------------------------------------ the codecs
\* imagination_augmented_agent.py: the palette, in tenths
pixels_dup ==
  << <<0, 10, 10>>, <<0, 10, 10>>, <<0, 0, 10>>, <<10, 10, 10>>,
     <<10, 10, 0>>, <<0, 0, 0>>, <<10, 0, 0>> >>
pixels ==
  << <<0, 10, 0>>, <<0, 10, 10>>, <<0, 0, 10>>, <<10, 10, 10>>,
     <<10, 10, 0>>, <<0, 0, 0>>, <<10, 0, 0>> >>

\* pacman_util.py: the palette, in tenths
util_pixels ==
  << <<0, 10, 10>>, <<0, 10, 0>>, <<0, 0, 10>>, <<10, 10, 10>>,
     <<10, 10, 0>>, <<0, 0, 0>>, <<10, 0, 0>> >>

num_pixels == Len(pixels)

\* {pix: i for i, pix in enumerate(table)}: a later duplicate overrides an
\* earlier one, so a key maps to the index of its last occurrence (0-based).
Enumerate(table) ==
  [pix \in Range(table) |->
     CHOOSE i \in 0..(Len(table) - 1) :
        /\ table[i + 1] = pix
        /\ \A j \in 0..(Len(table) - 1) : table[j + 1] = pix => j <= i]

pixel_to_onehot == Enumerate(pixels)

pixel_to_categorical == Enumerate(util_pixels)

\* the admissible rewards of each task, in tenths, and the task the module
\* is run for
task_rewards ==
  [regular |-> <<0, 10, 20, 30, 40, 50, 60, 70, 80, 90>>,
   avoid |-> <<1, -1, -50, -100, -200>>,
   hunt |-> <<0, 10, 100, -200>>,
   ambush |-> <<0, -1, 100, -200>>,
   rush |-> <<0, -1, 99>>]

mode == "regular"

num_rewards_of_mode == Len(task_rewards[mode])

\* {value: key for key, value in d.items()}
InvertDict(d) ==
  [v \in {d[k] : k \in DOMAIN d} |-> CHOOSE k \in DOMAIN d : d[k] = v]

\* np.round on a value in [0.0, 1.0]: half rounds to even, so 0.5 -> 0.0
np_round(v) == IF v <= 5 THEN 0 ELSE 10

\* np.ceil on a value in [0.0, 1.0]
np_ceil(v) == IF v = 0 THEN 0 ELSE 10

\* a tensor of shape `shape` = (C, H, W): spatial cells, elements
Cells(shape) == shape[2] * shape[3]

Numel(shape) == shape[1] * shape[2] * shape[3]

\* the channel vector of tensor t (shape `shape`) at spatial cell j (0-based,
\* j = h * W + w): element (c, h, w) lies at offset c * H * W + j
ChannelsAt(t, shape, j) ==
  [c \in 1..shape[1] |-> t[(c - 1) * Cells(shape) + j + 1]]

\* next_states.transpose(0, 2, 3, 1).reshape(-1, 3): the pixels of a batch of
\* (3, H, W) tensors, batch-major and row-major over the cells
TransposeReshape(next_states, shape) ==
  [n \in 1..(Len(next_states) * Cells(shape)) |->
     ChannelsAt(next_states[((n - 1) \div Cells(shape)) + 1], shape,
                (n - 1) % Cells(shape))]

RoundKey(p) == <<np_round(p[1]), np_round(p[2]), np_round(p[3])>>

CeilKey(p) == <<np_ceil(p[1]), np_ceil(p[2]), np_ceil(p[3])>>

\* a dictionary lookup raises KeyError when some key is absent
KeyError(keys, d) == \E n \in DOMAIN keys : keys[n] \notin DOMAIN d

Lookup(keys, d) == [n \in DOMAIN keys |-> d[keys[n]]]

\* imagination_augmented_agent.pix_to_target on a batch of (3, H, W) tensors:
\* the keys it looks up, and its result when no lookup raises
pix_to_target_keys(next_states, shape) ==
  LET px == TransposeReshape(next_states, shape)
  IN [n \in DOMAIN px |-> RoundKey(px[n])]

pix_to_target(next_states, shape) ==
  Lookup(pix_to_target_keys(next_states, shape), pixel_to_onehot)

\* pacman_util.pix_to_target on an (N, 3) array of pixels
util_pix_to_target_keys(next_states) ==
  [n \in DOMAIN next_states |-> CeilKey(next_states[n])]

util_pix_to_target(next_states) ==
  Lookup(util_pix_to_target_keys(next_states), pixel_to_categorical)

\* imagination_augmented_agent.target_to_pix: an (N, 3) array, row per target
to_pixel == InvertDict(pixel_to_onehot)

target_to_pix(imagined_states) == Lookup(imagined_states, to_pixel)

\* pacman_util.target_to_pix
util_to_pixel == InvertDict(pixel_to_categorical)

util_target_to_pix(imagined_states) == Lookup(imagined_states, util_to_pixel)

\* ------------------------------------------------------------ variables
VARIABLES
  \* ImaginationCore fields (set by __init__)
  num_rolouts, in_shape, num_actions, num_rewards, env_model, full_rollout,
  \* I2A.forward: its input batch, the encoder output, the reshaped summary
  real_state, hidden, fused,
  \* ImaginationCore.__call__: position and locals
  pc, state, action, rollout_batch_size, step, inputs,
  rollout_states, rollout_rewards,
  \* history: env_model invocations of the current call, completed calls,
  \* what the previous call returned, the batch the current call started its
  \* rollouts from, the last action the previous call sampled for its first
  \* rollout element
  env_queries, calls, prev_result, start_state, prev_action,
  \* codec round trip: position, which direction runs first, the
  \* implementation used by each direction,
  \* the value handed in, the intermediate value, the value handed back
  cpc, cdir, enc_impl, dec_impl, cin, cmid, cout,
  \* training loop: position, update counter, parameters and gradients of
  \* actor_critic and distil_policy, the losses' gradients of this update,
  \* optimizer steps applied to each parameter set in this update
  tpc, i_update, ac_params, ac_grad, distil_params, distil_grad,
  loss_grad, distil_loss_grad, ac_steps, distil_steps

imaginationVars ==
  <<num_rolouts, in_shape, num_actions, num_rewards, env_model, full_rollout,
    real_state, hidden, fused, pc, state, action, rollout_batch_size, step,
    inputs, rollout_states, rollout_rewards, env_queries, calls, prev_result,
    start_state, prev_action>>

codecVars == <<cpc, cdir, enc_impl, dec_impl, cin, cmid, cout>>

trainVars ==
  <<tpc, i_update, ac_params, ac_grad, distil_params, distil_grad,
    loss_grad, distil_loss_grad, ac_steps, distil_steps>>

vars == <<imaginationVars, codecVars, trainVars>>

\* ------------------------------------------------- tensors and helpers
\* an observation in which every cell shows palette entry p
Observation(p, shape) ==
  [i \in 1..Numel(shape) |-> pixels[p + 1][((i - 1) \div Cells(shape)) + 1]]

\* .max(1)[1] of a softmax: softmax is strictly increasing, so this is the
\* index (0-based) of the largest logit, the first one on a tie
ArgMax(v) ==
  CHOOSE i \in 0..(Len(v) - 1) :
    /\ \A j \in 0..(Len(v) - 1) : v[j + 1] <= v[i + 1]
    /\ \A j \in 0..(i - 1) : v[j + 1] < v[i + 1]

\* ------------------------------------------------- environment model
\* common.environment_model.EnvModel is outside the source tree.  It is a
\* deterministic function of its weights and, per batch element, of that
\* element's input planes.  The family below is indexed by an integer weight
\* and reads every input position of the element.
Digest(x) == SumTo([i \in 1..Len(x) |-> i * (x[i] \div 10)], Len(x))

StateLogits(w, d, j) ==
  [c \in 1..num_pixels |-> (c - 1 + w + d + j * (w + 1)) % num_pixels]

RewardLogits(w, d, R) ==
  [r \in 1..R |-> ((w + d) * r) % R]

\* returns the per-cell pixel logits, batch-major and row-major over the
\* cells (the order pix_to_target produces), and the per-element reward logits
EnvModel(w, x, shape, R) ==
  [imagined_state |->
     [n \in 1..(Len(x) * Cells(shape)) |->
        StateLogits(w, Digest(x[((n - 1) \div Cells(shape)) + 1]),
                    (n - 1) % Cells(shape))],
   imagined_reward |->
     [k \in 1..Len(x) |-> RewardLogits(w, Digest(x[k]), R)]]

\* distil_policy.act samples one action per batch element
Acts(n, A) == [1..n -> 0..(A - 1)]

\* ------------------------------------------------- ImaginationCore.__call__
\* state.unsqueeze(0).repeat(num_actions, 1, 1, 1, 1).view(-1, *in_shape)
ExpandState(st, A) ==
  [k \in 1..(A * Len(st)) |-> st[((k - 1) % Len(st)) + 1]]

\* torch.LongTensor([[i] for i in range(num_actions)] * batch_size)
ExpandAction(batch_size, A) ==
  [k \in 1..(batch_size * A) |-> (k - 1) % A]

\* the position the call continues at after its if/else
CallOutcomeNoRaise(full) == "loop"
CallOutcome(full) == IF full THEN "loop" ELSE "raised"

\* torch.ones(rollout_batch_size, num_actions, *in_shape[1:])
OnehotAction(rb, A, shape) ==
  [k \in 1..rb |-> [i \in 1..(A * Cells(shape)) |-> 10]]

\* the encoding the commented-out scatter would have produced
ScatteredAction(rb, A, shape, act) ==
  [k \in 1..rb |->
     [i \in 1..(A * Cells(shape)) |->
        IF (i - 1) \div Cells(shape) = act[k] THEN 10 ELSE 0]]

\* lines 207-215: inputs = torch.cat([state, onehot_action], 1)
BuildInputsScattered(st, act, rb, A, shape) ==
  [k \in 1..rb |-> st[k] \o ScatteredAction(rb, A, shape, act)[k]]
BuildInputs(st, act, rb, A, shape) ==
  [k \in 1..rb |-> st[k] \o OnehotAction(rb, A, shape)[k]]

\* torch.FloatTensor(pix).view(rollout_batch_size, *in_shape) of the (N, 3)
\* array pix: the contiguous data is cut into rollout_batch_size tensors
ViewState(pix, rb, shape) ==
  LET data == Flatten(pix)
  IN [k \in 1..rb |->
        [i \in 1..Numel(shape) |-> data[(k - 1) * Numel(shape) + i]]]

\* onehot_reward = zeros(rb, num_rewards); onehot_reward[range(rb), r] = 1
OnehotRewardOnes(rb, R, imagined_reward) ==
  [k \in 1..rb |-> [r \in 1..R |-> 10]]
OnehotReward(rb, R, imagined_reward) ==
  [k \in 1..rb |-> [r \in 1..R |-> IF r - 1 = imagined_reward[k] THEN 10 ELSE 0]]

\* for step in range(self.num_rolouts): where the loop goes after a pass
AfterStep(s, n) == IF s < n THEN "loop" ELSE "return"

\* ------------------------------------------------- RolloutEncoder, I2A
\* RolloutEncoder.forward: the convolution acts on each imagined state and
\* the GRU on each batch element's sequence, so element k of the result is a
\* function of the k-th column of states and rewards; it is represented by
\* that column.
RolloutEncoder(states, rewards) ==
  [k \in 1..Len(states[1]) |->
     [t \in 1..Len(states) |-> <<states[t][k], rewards[t][k]>>]]

\* hidden.view(batch_size, -1): row b holds the next Len(hidden)/batch_size
\* rows of hidden
HiddenView(h, batch_size) ==
  LET per == Len(h) \div batch_size
  IN [b \in 1..batch_size |-> [j \in 1..per |-> h[(b - 1) * per + j]]]

\* ------------------------------------------------- initial states
ImaginationOff ==
  /\ num_rolouts = 0 /\ in_shape = <<>> /\ num_actions = 0 /\ num_rewards = 0
  /\ env_model = 0 /\ full_rollout = TRUE /\ real_state = <<>>
  /\ hidden = <<>> /\ fused = <<>> /\ pc = "off" /\ state = <<>>
  /\ action = <<>> /\ rollout_batch_size = 0 /\ step = 0 /\ inputs = <<>>
  /\ rollout_states = <<>> /\ rollout_rewards = <<>> /\ env_queries = 0
  /\ calls = 0 /\ prev_result = <<>> /\ start_state = <<>>
  /\ prev_action = 0

CodecOff ==
  /\ cpc = "off" /\ cdir = "none" /\ enc_impl = "none" /\ dec_impl = "none"
  /\ cin = <<>> /\ cmid = <<>> /\ cout = <<>>

TrainOff ==
  /\ tpc = "off" /\ i_update = 0 /\ ac_params = 0 /\ ac_grad = 0
  /\ distil_params = 0 /\ distil_grad = 0 /\ loss_grad = 0
  /\ distil_loss_grad = 0 /\ ac_steps = 0 /\ distil_steps = 0

\* ImaginationCore.__init__ and the batch handed to I2A.forward
InitImagination ==
  /\ num_rolouts \in 1..MaxRollouts
  /\ \E W \in 1..MaxWidth : in_shape = <<3, 1, W>>
  /\ num_actions \in 1..MaxActions
  /\ num_rewards = num_rewards_of_mode
  /\ env_model \in 0..MaxWeight
  /\ full_rollout \in BOOLEAN
  /\ \E B \in 1..MaxBatch :
       /\ B * num_actions <= MaxRolloutBatch
       /\ \E colour \in [1..B -> 0..MaxColour] :
            real_state = [b \in 1..B |-> Observation(colour[b], in_shape)]
  /\ hidden = <<>> /\ fused = <<>> /\ pc = "idle" /\ state = <<>>
  /\ action = <<>> /\ rollout_batch_size = 0 /\ step = 0 /\ inputs = <<>>
  /\ rollout_states = <<>> /\ rollout_rewards = <<>> /\ env_queries = 0
  /\ calls = 0 /\ prev_result = <<>> /\ start_state = <<>>
  /\ prev_action = 0

Init == InitImagination /\ CodecOff /\ TrainOff

\* ------------------------------------------------- actions: imagination
\* I2A.forward lines 153-155 entering ImaginationCore.__call__ lines 184-200
Call ==
  /\ pc = "idle"
  /\ calls < MaxCalls
  /\ rollout_states' = <<>>
  /\ rollout_rewards' = <<>>
  /\ env_queries' = 0
  /\ step' = 0
  /\ inputs' = <<>>
  /\ IF full_rollout
       THEN /\ state' = ExpandState(real_state, num_actions)
            /\ action' = ExpandAction(Len(real_state), num_actions)
            /\ rollout_batch_size' = Len(real_state) * num_actions
       ELSE /\ state' = real_state
            /\ action' \in Acts(Len(real_state), num_actions)
            /\ rollout_batch_size' = Len(real_state)
  /\ start_state' = state'
  /\ pc' = CallOutcome(full_rollout)
  /\ UNCHANGED <<num_rolouts, in_shape, num_actions, num_rewards, env_model,
                 full_rollout, real_state, hidden, fused, calls, prev_result,
                 prev_action>>
  /\ UNCHANGED <<codecVars, trainVars>>

\* lines 207-229: one query of the environment model and its decoding
Imagine ==
  /\ pc = "loop"
  /\ LET inp == BuildInputs(state, action, rollout_batch_size, num_actions,
                            in_shape)
         out == EnvModel(env_model, inp, in_shape, num_rewards)
         imagined_state ==
           [n \in DOMAIN out.imagined_state |-> ArgMax(out.imagined_state[n])]
         imagined_reward ==
           [k \in DOMAIN out.imagined_reward |-> ArgMax(out.imagined_reward[k])]
         pix == target_to_pix(imagined_state)
     IN /\ inputs' = inp
        /\ rollout_states' =
             Append(rollout_states, ViewState(pix, rollout_batch_size, in_shape))
        /\ rollout_rewards' =
             Append(rollout_rewards,
                    OnehotReward(rollout_batch_size, num_rewards, imagined_reward))
  /\ env_queries' = env_queries + 1
  /\ pc' = "act"
  /\ UNCHANGED <<num_rolouts, in_shape, num_actions, num_rewards, env_model,
                 full_rollout, real_state, hidden, fused, state, action,
                 rollout_batch_size, step, calls, prev_result, start_state,
                 prev_action>>
  /\ UNCHANGED <<codecVars, trainVars>>

\* lines 231-233 and the loop header: the imagined state becomes the state,
\* the distillation policy samples the next actions
Act ==
  /\ pc = "act"
  /\ state' = rollout_states[Len(rollout_states)]
  /\ action' \in Acts(rollout_batch_size, num_actions)
  /\ step' = step + 1
  /\ pc' = AfterStep(step + 1, num_rolouts)
  /\ UNCHANGED <<num_rolouts, in_shape, num_actions, num_rewards, env_model,
                 full_rollout, real_state, hidden, fused, rollout_batch_size,
                 inputs, rollout_states, rollout_rewards, env_queries, calls,
                 prev_result, start_state, prev_action>>
  /\ UNCHANGED <<codecVars, trainVars>>

\* line 235: torch.cat(rollout_states), torch.cat(rollout_rewards)
Return ==
  /\ pc = "return"
  /\ pc' = "returned"
  /\ UNCHANGED <<num_rolouts, in_shape, num_actions, num_rewards, env_model,
                 full_rollout, real_state, hidden, fused, state, action,
                 rollout_batch_size, step, inputs, rollout_states,
                 rollout_rewards, env_queries, calls, prev_result, start_state,
                 prev_action>>
  /\ UNCHANGED <<codecVars, trainVars>>

\* I2A.forward lines 157-158: encode the rollouts, reshape to batch_size rows;
\* the locals of the finished call are gone
Encode ==
  /\ pc = "returned"
  /\ hidden' = RolloutEncoder(rollout_states, rollout_rewards)
  /\ fused' = HiddenView(hidden', Len(real_state))
  /\ prev_result' = <<rollout_states, rollout_rewards>>
  /\ prev_action' = action[1]
  /\ calls' = calls + 1
  /\ state' = <<>> /\ action' = <<>> /\ inputs' = <<>> /\ step' = 0
  /\ pc' = "idle"
  /\ UNCHANGED <<num_rolouts, in_shape, num_actions, num_rewards, env_model,
                 full_rollout, real_state, rollout_batch_size, rollout_states,
                 rollout_rewards, env_queries, start_state>>
  /\ UNCHANGED <<codecVars, trainVars>>

Next == Call \/ Imagine \/ Act \/ Return \/ Encode

Spec == Init /\ [][Next]_vars

\* ------------------------------------------------- properties: imagination
Distinct(seq) == \A i, j \in DOMAIN seq : i /= j => seq[i] /= seq[j]

AllEqual(seq, v) == \A i \in DOMAIN seq : seq[i] = v

\* plane a (0-based) of the action planes appended to element input x
ActionPlane(x, a) ==
  [j \in 1..Cells(in_shape) |-> x[Numel(in_shape) + a * Cells(in_shape) + j]]

Max(v) == CHOOSE m \in Range(v) : \A x \in Range(v) : x <= m

\* C1: in full-rollout mode every entry of row b of the fused summary is the
\* encoding of a rollout that started from real state b.
C1_RowsOwnRollouts ==
  (full_rollout /\ pc = "idle" /\ calls > 0) =>
     \A b \in DOMAIN fused : \A j \in DOMAIN fused[b] :
        \E k \in DOMAIN hidden :
           /\ start_state[k] = real_state[b]
           /\ hidden[k] = fused[b][j]

\* C2: in full-rollout mode the expanded batch has B*A elements and pairs
\* every real state with every action exactly once.
C2_EveryStateEveryAction ==
  (full_rollout /\ pc = "loop" /\ step = 0 /\ Distinct(real_state)) =>
     /\ Len(state) = Len(real_state) * num_actions
     /\ rollout_batch_size = Len(real_state) * num_actions
     /\ \A b \in DOMAIN real_state : \A a \in 0..(num_actions - 1) :
          Cardinality({k \in DOMAIN state :
                         state[k] = real_state[b] /\ action[k] = a}) = 1

\* C3: the action planes fed to the environment model are the one-hot
\* encoding of each element's current action: that action's plane is all
\* ones, every other plane is all zeros.
C3_ActionPlanesOneHot ==
  (pc = "act") =>
     \A k \in DOMAIN inputs : \A a \in 0..(num_actions - 1) :
        AllEqual(ActionPlane(inputs[k], a), IF a = action[k] THEN 10 ELSE 0)

\* C4: in every imagined state the channel triple at every spatial cell is a
\* palette entry.
C4_PaletteMembership ==
  \A t \in DOMAIN rollout_states : \A k \in DOMAIN rollout_states[t] :
     \A j \in 0..(Cells(in_shape) - 1) :
        ChannelsAt(rollout_states[t][k], in_shape, j) \in Range(pixels)

\* C6: with full_rollout false the call raises: it never reaches the loop,
\* never queries the environment model and produces no rollouts.
C6_ReducedModeRaises ==
  (~full_rollout) =>
     /\ pc \in {"idle", "raised"}
     /\ env_queries = 0
     /\ rollout_states = <<>>
     /\ rollout_rewards = <<>>

C6_Witness == ~full_rollout /\ pc = "raised" /\ Len(action) = Len(real_state)

\* C7: a full-rollout call queries the environment model num_rolouts times
\* and returns num_rolouts steps of B*A states and B*A reward vectors of
\* width num_rewards; every reward vector has a single 1, at an index where
\* the environment model's reward logits are largest.
C7_ShapeAndOneHot ==
  /\ (full_rollout /\ pc = "returned") =>
        /\ env_queries = num_rolouts
        /\ Len(rollout_states) = num_rolouts
        /\ Len(rollout_rewards) = num_rolouts
        /\ \A t \in 1..num_rolouts :
             /\ Len(rollout_states[t]) = Len(real_state) * num_actions
             /\ Len(rollout_rewards[t]) = Len(real_state) * num_actions
             /\ \A k \in DOMAIN rollout_states[t] :
                  Len(rollout_states[t][k]) = Numel(in_shape)
             /\ \A k \in DOMAIN rollout_rewards[t] :
                  /\ Len(rollout_rewards[t][k]) = num_rewards
                  /\ Cardinality({r \in 1..num_rewards :
                                    rollout_rewards[t][k][r] = 10}) = 1
                  /\ Cardinality({r \in 1..num_rewards :
                                    rollout_rewards[t][k][r] = 0})
                       = num_rewards - 1
  /\ (full_rollout /\ pc = "act") =>
        LET logits ==
              EnvModel(env_model, inputs, in_shape, num_rewards).imagined_reward
            latest == rollout_rewards[Len(rollout_rewards)]
        IN \A k \in DOMAIN latest : \A r \in 1..num_rewards :
              latest[k][r] = 10 => logits[k][r] = Max(logits[k])

C7_Witness ==
  /\ full_rollout /\ pc = "returned"
  /\ num_rolouts > 1 /\ num_actions > 1 /\ Len(real_state) > 1
  /\ num_rewards > 1
  /\ \E k \in DOMAIN rollout_rewards[1] :
        rollout_rewards[1][k] /= rollout_rewards[2][k]

\* C8: a later call with the same environment model and the same real-state
\* batch returns what the previous call returned, whatever the distillation
\* policy sampled: every step it has produced equals that step of the
\* previous result, and at return nothing is missing.
C8_Deterministic ==
  (full_rollout /\ calls > 0 /\ pc \in {"loop", "act", "return", "returned"}) =>
     /\ \A t \in DOMAIN rollout_states :
          /\ rollout_states[t] = prev_result[1][t]
          /\ rollout_rewards[t] = prev_result[2][t]
     /\ pc = "returned" => <<rollout_states, rollout_rewards>> = prev_result

C8_Witness ==
  /\ full_rollout /\ pc = "returned" /\ calls > 0
  /\ num_rolouts > 1
  /\ action[1] /= prev_action
  /\ <<rollout_states, rollout_rewards>> = prev_result

\* ------------------------------------------------- the codecs in use
Impls == {"agent", "util"}

\* pixel components an observation may hold: 0.0, 0.5, 1.0
Components == {0, 5, 10}

InputPixels == {<<r, g, b>> : r \in Components, g \in Components, b \in Components}

SeqsUpTo(S, n) == UNION {[1..m -> S] : m \in 1..n}

\* the (3, 1, L) tensor whose cells show the L pixels of px
Image(px) ==
  [i \in 1..(3 * Len(px)) |-> px[((i - 1) % Len(px)) + 1][((i - 1) \div Len(px)) + 1]]

\* a round trip starts from pixels (encode, then decode) or from category
\* indices (decode, then encode)
InitCodec ==
  /\ ImaginationOff /\ TrainOff
  /\ enc_impl \in Impls
  /\ dec_impl \in Impls
  /\ cdir \in {"enc_dec", "dec_enc"}
  /\ cin \in IF cdir = "enc_dec" THEN SeqsUpTo(InputPixels, MaxLen)
                                 ELSE SeqsUpTo(0..(num_pixels - 1), MaxLen)
  /\ cpc = IF cdir = "enc_dec" THEN "encode" ELSE "decode"
  /\ cmid = <<>>
  /\ cout = <<>>

\* where a codec call leaves the round trip
CodecNext(raised, first, then) ==
  IF raised THEN "error" ELSE IF first THEN then ELSE "done"

\* the argument of the running codec call, and where its result goes
CodecArg(first) == IF first THEN cin ELSE cmid

CodecResult(raised, first, res) ==
  /\ cmid' = IF first /\ ~raised THEN res ELSE cmid
  /\ cout' = IF ~first /\ ~raised THEN res ELSE cout

AgentPixToTarget ==
  /\ cpc = "encode" /\ enc_impl = "agent"
  /\ LET first == (cdir = "enc_dec")
         img == <<Image(CodecArg(first))>>
         shape == <<3, 1, Len(CodecArg(first))>>
         raised == KeyError(pix_to_target_keys(img, shape), pixel_to_onehot)
     IN /\ CodecResult(raised, first, pix_to_target(img, shape))
        /\ cpc' = CodecNext(raised, first, "decode")
  /\ UNCHANGED <<cdir, enc_impl, dec_impl, cin>>
  /\ UNCHANGED <<imaginationVars, trainVars>>

UtilPixToTarget ==
  /\ cpc = "encode" /\ enc_impl = "util"
  /\ LET first == (cdir = "enc_dec")
         arg == CodecArg(first)
         raised == KeyError(util_pix_to_target_keys(arg), pixel_to_categorical)
     IN /\ CodecResult(raised, first, util_pix_to_target(arg))
        /\ cpc' = CodecNext(raised, first, "decode")
  /\ UNCHANGED <<cdir, enc_impl, dec_impl, cin>>
  /\ UNCHANGED <<imaginationVars, trainVars>>

AgentTargetToPix ==
  /\ cpc = "decode" /\ dec_impl = "agent"
  /\ LET first == (cdir = "dec_enc")
         arg == CodecArg(first)
         raised == KeyError(arg, to_pixel)
     IN /\ CodecResult(raised, first, target_to_pix(arg))
        /\ cpc' = CodecNext(raised, first, "encode")
  /\ UNCHANGED <<cdir, enc_impl, dec_impl, cin>>
  /\ UNCHANGED <<imaginationVars, trainVars>>

UtilTargetToPix ==
  /\ cpc = "decode" /\ dec_impl = "util"
  /\ LET first == (cdir = "dec_enc")
         arg == CodecArg(first)
         raised == KeyError(arg, util_to_pixel)
     IN /\ CodecResult(raised, first, util_target_to_pix(arg))
        /\ cpc' = CodecNext(raised, first, "encode")
  /\ UNCHANGED <<cdir, enc_impl, dec_impl, cin>>
  /\ UNCHANGED <<imaginationVars, trainVars>>

NextCodec ==
  AgentPixToTarget \/ UtilPixToTarget \/ AgentTargetToPix \/ UtilTargetToPix

SpecCodec == InitCodec /\ [][NextCodec]_vars

\* ------------------------------------------------- properties: codecs
\* the palette entries: the table is the same set in both files
IsPalette(px) == \A n \in DOMAIN px : px[n] \in Range(pixels)

\* C9: within one codec implementation, encoding a palette entry and
\* decoding the index gives the entry back, and decoding an index in 0..6
\* and encoding the pixel gives the index back.
C9_RoundTrip ==
  (enc_impl = dec_impl /\ cpc \notin {"encode", "decode"}) =>
     /\ (cdir = "enc_dec" /\ IsPalette(cin)) => (cpc = "done" /\ cout = cin)
     /\ (cdir = "dec_enc") => (cpc = "done" /\ cout = cin)

C9_Witness ==
  /\ enc_impl = dec_impl /\ cpc = "done" /\ cout = cin
  /\ Len(cin) = MaxLen /\ cin[1] /= cin[2]
  /\ (cdir = "enc_dec" => IsPalette(cin))

\* C10: the two implementations assign the same index to every palette
\* entry: an index produced by one decodes to the same pixel with the other.
C10_CodecsAgree ==
  (enc_impl /= dec_impl /\ cdir = "enc_dec" /\ IsPalette(cin)
     /\ cpc \notin {"encode", "decode"}) =>
        (cpc = "done" /\ cout = cin)

\* ------------------------------------------------- the training loop
\* Parameters and gradients of each network are abstracted to one number in
\* tenths; an optimizer step moves its parameters against their gradient.
max_grad_norm == 5

\* the gradients a backward pass may add
Grads == {5 * g : g \in (0 - MaxGrad)..MaxGrad}

\* optimizer.step() / distil_optimizer.step() on the parameters it was built on
OptimizerStep(params, grad) == params - grad

\* nn.utils.clip_grad_norm(parameters, max_norm)
clip_grad_norm(grad, max_norm) ==
  IF grad > max_norm THEN max_norm
  ELSE IF grad < 0 - max_norm THEN 0 - max_norm ELSE grad

InitTrain ==
  /\ ImaginationOff /\ CodecOff
  /\ tpc = "collect" /\ i_update = 0
  /\ ac_params = 0 /\ distil_params = 0
  /\ ac_grad = 0 /\ distil_grad = 0
  /\ loss_grad = 0 /\ distil_loss_grad = 0
  /\ ac_steps = 0 /\ distil_steps = 0

\* lines 290-313: a new update begins, the environment steps are taken
Collect ==
  /\ tpc = "collect"
  /\ i_update < MaxUpdates
  /\ ac_steps' = 0 /\ distil_steps' = 0
  /\ tpc' = "evaluate"
  /\ UNCHANGED <<i_update, ac_params, ac_grad, distil_params, distil_grad,
                 loss_grad, distil_loss_grad>>
  /\ UNCHANGED <<imaginationVars, codecVars>>

\* lines 319-358: both policies are evaluated and the losses are built; the
\* gradient each loss will produce depends on the collected data
Evaluate ==
  /\ tpc = "evaluate"
  /\ loss_grad' \in Grads
  /\ distil_loss_grad' \in Grads
  /\ tpc' = "zero_grad"
  /\ UNCHANGED <<i_update, ac_params, ac_grad, distil_params, distil_grad,
                 ac_steps, distil_steps>>
  /\ UNCHANGED <<imaginationVars, codecVars>>

\* line 364: optimizer.zero_grad()
ZeroGrad ==
  /\ tpc = "zero_grad"
  /\ ac_grad' = 0
  /\ tpc' = "backward"
  /\ UNCHANGED <<i_update, ac_params, distil_params, distil_grad, loss_grad,
                 distil_loss_grad, ac_steps, distil_steps>>
  /\ UNCHANGED <<imaginationVars, codecVars>>

\* lines 365-367: loss.backward() and clip_grad_norm on actor_critic
Backward ==
  /\ tpc = "backward"
  /\ ac_grad' = clip_grad_norm(ac_grad + loss_grad, max_grad_norm)
  /\ tpc' = "step"
  /\ UNCHANGED <<i_update, ac_params, distil_params, distil_grad, loss_grad,
                 distil_loss_grad, ac_steps, distil_steps>>
  /\ UNCHANGED <<imaginationVars, codecVars>>

\* line 368: optimizer.step()
Step ==
  /\ tpc = "step"
  /\ ac_params' = OptimizerStep(ac_params, ac_grad)
  /\ ac_steps' = ac_steps + 1
  /\ tpc' = "distil_zero_grad"
  /\ UNCHANGED <<i_update, ac_grad, distil_params, distil_grad, loss_grad,
                 distil_loss_grad, distil_steps>>
  /\ UNCHANGED <<imaginationVars, codecVars>>

\* line 370: distil_optimizer.zero_grad()
DistilZeroGrad ==
  /\ tpc = "distil_zero_grad"
  /\ distil_grad' = 0
  /\ tpc' = "distil_backward"
  /\ UNCHANGED <<i_update, ac_params, ac_grad, distil_params, loss_grad,
                 distil_loss_grad, ac_steps, distil_steps>>
  /\ UNCHANGED <<imaginationVars, codecVars>>

\* line 371: distil_loss.backward(); the main logits are detached, so only
\* the distillation policy receives gradient
DistilBackward ==
  /\ tpc = "distil_backward"
  /\ distil_grad' = distil_grad + distil_loss_grad
  /\ tpc' = "distil_step"
  /\ UNCHANGED <<i_update, ac_params, ac_grad, distil_params, loss_grad,
                 distil_loss_grad, ac_steps, distil_steps>>
  /\ UNCHANGED <<imaginationVars, codecVars>>

\* line 372: optimizer.step(), the optimizer built on actor_critic.parameters()
StepAfterDistil ==
  /\ tpc = "distil_step"
  /\ ac_params' = OptimizerStep(ac_params, ac_grad)
  /\ ac_steps' = ac_steps + 1
  /\ tpc' = "end_update"
  /\ UNCHANGED <<i_update, ac_grad, distil_params, distil_grad, loss_grad,
                 distil_loss_grad, distil_steps>>
  /\ UNCHANGED <<imaginationVars, codecVars>>

\* lines 376-388: bookkeeping, rollout.after_update(), next update
EndUpdate ==
  /\ tpc = "end_update"
  /\ i_update' = i_update + 1
  /\ tpc' = "collect"
  /\ UNCHANGED <<ac_params, ac_grad, distil_params, distil_grad, loss_grad,
                 distil_loss_grad, ac_steps, distil_steps>>
  /\ UNCHANGED <<imaginationVars, codecVars>>

NextTrain ==
  \/ Collect \/ Evaluate \/ ZeroGrad \/ Backward \/ Step
  \/ DistilZeroGrad \/ DistilBackward \/ StepAfterDistil \/ EndUpdate

SpecTrain == InitTrain /\ [][NextTrain]_vars

\* ------------------------------------------------- properties: training
\* C5: in every update each parameter set is stepped once: the optimizer of
\* the main network once, and the distillation policy's own optimizer once,
\* after the distillation gradients were computed.
C5_BothOptimizedOnce ==
  (tpc = "end_update") => (ac_steps = 1 /\ distil_steps = 1)

====
